---- MODULE Spec2Model ----
(***************************************************************************)
(* State-machine model of the rate limiting core of                        *)
(* medcynyc/semrush-domain-metrics: src/src/api/rate_limiter.py            *)
(* (RateLimiter, RateLimitManager).                                        *)
(*                                                                         *)
(* Time is counted in whole seconds.  The clock `now` is what time.time()  *)
(* returns; it is read separately at every place the code reads it, and    *)
(* the environment may advance it between any two steps (Tick).  A         *)
(* time.sleep(d) started at time s returns at a time >= s + d.             *)
(*                                                                         *)
(* Spec:        one RateLimiter, constructed with positive limits, used by *)
(*              concurrent callers of wait().                              *)
(* SpecManager: the RateLimitManager: get_limiter, wait_for_endpoint, and  *)
(*              wait() on the limiters it created.                         *)
(* SpecClient:  SEMrushAPIV3Client._make_request                           *)
(*              (src/src/api/semrush_client.py) on the process-wide        *)
(*              registry, next to other callers of get_limiter.            *)
(* FairSpec:    Spec with weak fairness of every thread's steps of wait(). *)
(* SpecConn:    concurrent constructions of ConnectionManager              *)
(*              (src/src/db/connection.py).                                *)
(***************************************************************************)
EXTENDS Integers, Sequences, FiniteSets, TLC

\* ------------------------------------------------------------------ bounds
NumThreads == 2
MaxCalls == 3
MaxTicks == 2

\* ------------------------------------------------------- program constants
DefaultCallsPerSecond == 10
DefaultCallsPerMinute == 600
DefaultMaxRetries == 3
SecondInterval == 1
MinuteInterval == 60
RetrySleep == 1
ClientPerSecond == 1
ClientPerMinute == 45

\* ------------------------------------------------------------ input sets
Threads == 1..NumThreads
Endpoints == {"x", "y"}
\* the limits a RateLimiter is constructed with directly (positive integers)
PosLimits == {1, 2}
RetryVals == {1, 2}
\* the values callers of get_limiter pass as overrides (any integer)
OverrideVals == {-1, 0, 1}
\* clock advances the environment makes between two steps, in seconds
TickSteps == {1, MinuteInterval}

\* the endpoints the client's public methods pass to _make_request, as
\* sequences of a "/" separator and names
ClientPaths == {<<"/", "x">>, <<"/", "y">>}
\* the HTTP status codes the server answers with
StatusCodes == {200, 401, 429}
\* client.request() raised instead of returning a response
NoResponse == 0
Responses == StatusCodes \cup {NoResponse}

NoThread == 0
NoLimiter == 0
\* Optional[int]: {} is None, {v} is the value v
NoneArg == {}

VARIABLES
    now,          \* time.time()
    ticks,        \* number of clock advances made by the environment
    limiters,     \* heap of RateLimiter objects, indexed by identity
    mgr_limiters, \* RateLimitManager._limiters: endpoint -> limiter identity
    mgr_lock,     \* RateLimitManager._lock: holder or NoThread
    th,           \* per thread: program counter and locals
    calls,        \* number of top-level calls started
    created,      \* history: RateLimiter objects constructed per endpoint
    returned,     \* history: identities get_limiter returned per endpoint
    admitted,     \* history: per limiter, the recorded admission times
    http_log,     \* history: the endpoint keys of the HTTP requests issued
    conn          \* the class attributes of ConnectionManager and its instance

vars == <<now, ticks, limiters, mgr_limiters, mgr_lock, th, calls,
          created, returned, admitted, http_log, conn>>

Max(a, b) == IF a >= b THEN a ELSE b

\* ------------------------------------------------------------ RateLimiter

\* RateLimiter.__init__: no validation of its arguments
RateLimiter(calls_per_second, calls_per_minute, max_retries) ==
    [calls_per_second |-> calls_per_second,
     calls_per_minute |-> calls_per_minute,
     max_retries |-> max_retries,
     second_queue |-> <<>>,
     minute_queue |-> <<>>,
     lock |-> NoThread]

\* mutants of _clean_queue: a strict comparison; the valid timestamps not
\* put back
clean_queue_strict(q, interval, current_time) ==
    SelectSeq(q, LAMBDA timestamp: current_time - timestamp < interval)

clean_queue_no_putback(q, interval, current_time) == <<>>

\* mutant of _clean_queue: nothing evicted
clean_queue_keep_all(q, interval, current_time) == q

\* RateLimiter._clean_queue: the timestamps kept, in order
clean_queue(q, interval, current_time) ==
    SelectSeq(q, LAMBDA timestamp: current_time - timestamp <= interval)

\* RateLimiter._wait_if_needed: the sleep computed from second_queue.queue[0]
sleep_time(l, interval, current_time) ==
    Max(0, interval - (current_time - Head(l.second_queue)))

\* mutant of the admission test: limits compared with <=
both_pass_inclusive(second_count, minute_count, l) ==
    second_count <= l.calls_per_second /\ minute_count <= l.calls_per_minute

\* wait(): "if both checks pass"
both_pass(second_count, minute_count, l) ==
    second_count < l.calls_per_second /\ minute_count < l.calls_per_minute

\* mutant of the retry counter: two counted for one failed attempt
next_retries_two(retries) == retries + 2

\* wait(): retries += 1
next_retries(retries) == retries + 1

\* mutant of the recording: the timestamp put at the front
record_request_front(l, current_time) ==
    [l EXCEPT !.second_queue = <<current_time>> \o @,
              !.minute_queue = <<current_time>> \o @]

\* mutant of the recording: the minute queue forgotten
record_request_second_only(l, current_time) ==
    [l EXCEPT !.second_queue = Append(@, current_time)]

\* wait(): "record the request"
record_request(l, current_time) ==
    [l EXCEPT !.second_queue = Append(@, current_time),
              !.minute_queue = Append(@, current_time)]

\* mutant of wait(): the lock not taken
wait_unlocked(l) == TRUE

\* "with self._lock" of wait(): may the caller enter
wait_lock_free(l) == l.lock = NoThread

\* mutant of wait(): the lock kept by the caller after wait() has ended
wait_lock_kept(t) == t

\* leaving "with self._lock" of wait(), by return or by exception: the lock
\* is released
wait_lock_released(t) == NoThread

\* ------------------------------------------------------- RateLimitManager

\* Python's `value or default` on an Optional[int]
py_or(arg, default) ==
    IF arg = NoneArg \/ arg = {0} THEN default ELSE CHOOSE v \in arg : TRUE

\* mutant of get_limiter: the entry never found
endpoint_absent_always(k) == TRUE

\* get_limiter(): "if endpoint not in self._limiters"
endpoint_absent(k) == mgr_limiters[k] = NoLimiter

\* mutant of the insertion: every key bound to the new limiter
store_limiter_all(m, k, id) == [j \in DOMAIN m |-> id]

\* get_limiter(): self._limiters[endpoint] = <the new limiter>
store_limiter(m, k, id) == [m EXCEPT ![k] = id]

\* mutant of wait_for_endpoint: an override passed to get_limiter
wait_for_endpoint_override_one == {1}

\* wait_for_endpoint(): self.get_limiter(endpoint) passes no override
wait_for_endpoint_override == NoneArg

\* mutant of get_limiter: the lock kept by the caller after the return
manager_lock_kept(t) == t

\* leaving "with self._lock" of get_limiter(): the lock is released
manager_lock_released(t) == NoThread

\* mutant of get_limiter: the lock not taken
get_limiter_unlocked == TRUE

\* "with self._lock" of get_limiter(): may the caller enter
get_limiter_lock_free == mgr_lock = NoThread

\* ------------------------------------------------------ SEMrushAPIV3Client

RECURSIVE lstrip(_, _)
\* str.lstrip(c): the leading occurrences of c removed
lstrip(path, c) ==
    IF path # <<>> /\ Head(path) = c THEN lstrip(Tail(path), c) ELSE path

RECURSIVE first_part(_, _)
\* str.split(c)[0]: what precedes the first occurrence of c
first_part(path, c) ==
    IF path = <<>> \/ Head(path) = c THEN <<>>
    ELSE <<Head(path)>> \o first_part(Tail(path), c)

\* endpoint.lstrip('/').split('/')[0]; a part made of one name is that name
endpoint_key(path) ==
    LET part == first_part(lstrip(path, "/"), "/")
    IN IF Len(part) = 1 THEN part[1] ELSE ""

\* mutant of _make_request: the request issued without rate_limiter.wait()
client_skips_wait == "mr_request"

\* _make_request(): what follows _get_rate_limiter is rate_limiter.wait()
client_after_limiter == "w_lock"

\* mutant of raise_for_status: no status is an error
raise_for_status_never(status) == FALSE

\* response.raise_for_status(): raises HTTPStatusError for 4xx and 5xx
raise_for_status(status) == status \div 100 \in {4, 5}

\* ------------------------------------------------------------- threads

IdleLocals ==
    [pc |-> "idle", op |-> "none", self |-> NoLimiter, endpoint |-> "none",
     calls_per_second |-> NoneArg, calls_per_minute |-> NoneArg,
     retries |-> 0, second_count |-> 0, minute_count |-> 0, wake |-> 0,
     waited |-> FALSE, raised |-> "none", result |-> "none",
     status_code |-> NoResponse]

\* the locals of a thread whose call has returned normally
Returned == IdleLocals

\* the locals of a thread whose wait() has raised `exc`: the exception, the
\* limiter it came from and the retry counter at the raise stay visible
Raised(t, exc) ==
    [IdleLocals EXCEPT !.raised = exc, !.self = th[t].self,
                       !.retries = th[t].retries]

\* the locals of a thread whose wait() has returned: _make_request goes on
\* to the HTTP request, the other callers are done
AfterWait(t) ==
    IF th[t].op = "make_request"
    THEN [IdleLocals EXCEPT !.pc = "mr_request", !.op = "make_request",
                            !.self = th[t].self, !.endpoint = th[t].endpoint]
    ELSE Returned

InitCommon ==
    /\ now = 0
    /\ ticks = 0
    /\ mgr_limiters = [k \in Endpoints |-> NoLimiter]
    /\ mgr_lock = NoThread
    /\ th = [t \in Threads |-> IdleLocals]
    /\ calls = 0
    /\ created = [k \in Endpoints |-> 0]
    /\ returned = [k \in Endpoints |-> {}]
    /\ http_log = <<>>
    /\ conn = [lock |-> NoThread, instances |-> 0, initialized |-> FALSE,
               pools |-> 0, inits |-> 0]

\* one RateLimiter constructed by its user
Init ==
    /\ InitCommon
    /\ \E cps \in PosLimits, cpm \in PosLimits, mr \in RetryVals :
          limiters = <<RateLimiter(cps, cpm, mr)>>
    /\ admitted = << <<>> >>

\* rate_limit_manager = RateLimitManager()
InitManager ==
    /\ InitCommon
    /\ limiters = <<>>
    /\ admitted = <<>>

\* the environment advances the clock
Tick(d) ==
    /\ ticks < MaxTicks
    /\ now' = now + d
    /\ ticks' = ticks + 1
    /\ UNCHANGED <<limiters, mgr_limiters, mgr_lock, th, calls,
                   created, returned, admitted,
                   http_log, conn>>

\* ------------------------------------------------------ RateLimiter.wait

CallWait(t, l) ==
    /\ th[t].pc = "idle"
    /\ calls < MaxCalls
    /\ calls' = calls + 1
    /\ th' = [th EXCEPT ![t] = [IdleLocals EXCEPT !.pc = "w_lock",
                                                   !.op = "wait", !.self = l]]
    /\ UNCHANGED <<now, ticks, limiters, mgr_limiters, mgr_lock,
                   created, returned, admitted,
                   http_log, conn>>

\* the test of "while retries < self.max_retries", and the raise after the loop
LoopHead(t, retries) ==
    LET l == th[t].self IN
    IF retries < limiters[l].max_retries
    THEN /\ th' = [th EXCEPT ![t].pc = "w_clean_s", ![t].retries = retries,
                             ![t].second_count = 0, ![t].minute_count = 0,
                             ![t].wake = 0, ![t].waited = FALSE]
         /\ limiters' = [limiters EXCEPT ![l].lock = t]
    ELSE /\ th' = [th EXCEPT ![t] = Raised(t, "RuntimeError")]
         /\ limiters' = [limiters EXCEPT ![l].lock = wait_lock_released(t)]

\* with self._lock: retries = 0
wait_enter(t) ==
    /\ th[t].pc = "w_lock"
    /\ wait_lock_free(limiters[th[t].self])
    /\ LoopHead(t, 0)
    /\ UNCHANGED <<now, ticks, mgr_limiters, mgr_lock, calls,
                   created, returned, admitted,
                   http_log, conn>>

\* second_count = self._clean_queue(self.second_queue, 1.0)
wait_clean_second(t) ==
    /\ th[t].pc = "w_clean_s"
    /\ LET l == th[t].self
           q == clean_queue(limiters[l].second_queue, SecondInterval, now)
       IN /\ limiters' = [limiters EXCEPT ![l].second_queue = q]
          /\ th' = [th EXCEPT ![t].second_count = Len(q),
                              ![t].pc = IF Len(q) >= limiters[l].calls_per_second
                                        THEN "w_wait_s" ELSE "w_clean_m"]
    /\ UNCHANGED <<now, ticks, mgr_limiters, mgr_lock, calls,
                   created, returned, admitted,
                   http_log, conn>>

\* self._wait_if_needed(current_count, limit, interval), up to the sleep
WaitIfNeeded(t, current_count, limit, interval, sleepPc, nextPc) ==
    LET l == th[t].self IN
    IF current_count >= limit
    THEN IF limiters[l].second_queue = <<>>
         THEN \* second_queue.queue[0] raises IndexError; the lock is released
              /\ th' = [th EXCEPT ![t] = Raised(t, "IndexError")]
              /\ limiters' = [limiters EXCEPT ![l].lock = wait_lock_released(t)]
         ELSE /\ th' = [th EXCEPT
                    ![t].pc = IF sleep_time(limiters[l], interval, now) > 0
                              THEN sleepPc ELSE nextPc,
                    ![t].wake = IF sleep_time(limiters[l], interval, now) > 0
                                THEN now + sleep_time(limiters[l], interval, now)
                                ELSE 0]
              /\ UNCHANGED limiters
    ELSE /\ th' = [th EXCEPT ![t].pc = nextPc]
         /\ UNCHANGED limiters

wait_if_needed_second(t) ==
    /\ th[t].pc = "w_wait_s"
    /\ WaitIfNeeded(t, th[t].second_count,
                    limiters[th[t].self].calls_per_second, SecondInterval,
                    "w_sleep_s", "w_clean_m")
    /\ UNCHANGED <<now, ticks, mgr_limiters, mgr_lock, calls,
                   created, returned, admitted,
                   http_log, conn>>

\* minute_count = self._clean_queue(self.minute_queue, 60.0)
wait_clean_minute(t) ==
    /\ th[t].pc = "w_clean_m"
    /\ LET l == th[t].self
           q == clean_queue(limiters[l].minute_queue, MinuteInterval, now)
       IN /\ limiters' = [limiters EXCEPT ![l].minute_queue = q]
          /\ th' = [th EXCEPT ![t].minute_count = Len(q),
                              ![t].pc = IF Len(q) >= limiters[l].calls_per_minute
                                        THEN "w_wait_m" ELSE "w_record"]
    /\ UNCHANGED <<now, ticks, mgr_limiters, mgr_lock, calls,
                   created, returned, admitted,
                   http_log, conn>>

wait_if_needed_minute(t) ==
    /\ th[t].pc = "w_wait_m"
    /\ WaitIfNeeded(t, th[t].minute_count,
                    limiters[th[t].self].calls_per_minute, MinuteInterval,
                    "w_sleep_m", "w_record")
    /\ UNCHANGED <<now, ticks, mgr_limiters, mgr_lock, calls,
                   created, returned, admitted,
                   http_log, conn>>

\* time.sleep(sleep_time) of _wait_if_needed returns
wait_wake(t) ==
    /\ th[t].pc \in {"w_sleep_s", "w_sleep_m"}
    /\ now' = Max(now, th[t].wake)
    /\ th' = [th EXCEPT ![t].pc = IF th[t].pc = "w_sleep_s"
                                  THEN "w_clean_m" ELSE "w_record",
                        ![t].wake = 0,
                        ![t].waited = TRUE]
    /\ UNCHANGED <<ticks, limiters, mgr_limiters, mgr_lock, calls,
                   created, returned, admitted,
                   http_log, conn>>

\* current_time = time.time(); record the request, or retries += 1 and sleep
wait_record(t) ==
    /\ th[t].pc = "w_record"
    /\ LET l == th[t].self IN
       IF both_pass(th[t].second_count, th[t].minute_count, limiters[l])
       THEN /\ limiters' = [limiters EXCEPT
                   ![l] = [record_request(limiters[l], now) EXCEPT !.lock = wait_lock_released(t)]]
            /\ admitted' = [admitted EXCEPT ![l] = Append(@, now)]
            /\ th' = [th EXCEPT ![t] = AfterWait(t)]
       ELSE /\ th' = [th EXCEPT ![t].retries = next_retries(@),
                                ![t].pc = "w_sleep_r",
                                ![t].wake = now + RetrySleep]
            /\ UNCHANGED <<limiters, admitted>>
    /\ UNCHANGED <<now, ticks, mgr_limiters, mgr_lock, calls,
                   created, returned, http_log, conn>>

\* time.sleep(1) returns; back to the loop test
wait_retry(t) ==
    /\ th[t].pc = "w_sleep_r"
    /\ now' = Max(now, th[t].wake)
    /\ LoopHead(t, th[t].retries)
    /\ UNCHANGED <<ticks, mgr_limiters, mgr_lock, calls,
                   created, returned, admitted,
                   http_log, conn>>

\* -------------------------------------------- RateLimitManager.get_limiter

OptOverrides == {NoneArg} \cup {{v} : v \in OverrideVals}

\* a caller of get_limiter(endpoint, calls_per_second, calls_per_minute); the
\* overrides it passes are drawn where the code first can read them, inside
\* the lock
CallGetLimiter(t, k) ==
    /\ th[t].pc = "idle"
    /\ calls < MaxCalls
    /\ calls' = calls + 1
    /\ th' = [th EXCEPT ![t] = [IdleLocals EXCEPT !.pc = "gl_lock",
                                 !.op = "get_limiter", !.endpoint = k]]
    /\ UNCHANGED <<now, ticks, limiters, mgr_limiters, mgr_lock,
                   created, returned, admitted,
                   http_log, conn>>

\* wait_for_endpoint: limiter = self.get_limiter(endpoint)
CallWaitForEndpoint(t, k) ==
    /\ th[t].pc = "idle"
    /\ calls < MaxCalls
    /\ calls' = calls + 1
    /\ th' = [th EXCEPT ![t] = [IdleLocals EXCEPT !.pc = "gl_lock",
                                 !.op = "wait_for_endpoint", !.endpoint = k]]
    /\ UNCHANGED <<now, ticks, limiters, mgr_limiters, mgr_lock,
                   created, returned, admitted,
                   http_log, conn>>

\* with self._lock: if endpoint not in self._limiters; a and b are the
\* overrides the caller passed (wait_for_endpoint passes none)
get_limiter_enter(t, a, b) ==
    /\ th[t].pc = "gl_lock"
    /\ th[t].op = "wait_for_endpoint" =>
          a = wait_for_endpoint_override /\ b = wait_for_endpoint_override
    /\ th[t].op = "make_request" =>
          a = {ClientPerSecond} /\ b = {ClientPerMinute}
    /\ get_limiter_lock_free
    /\ mgr_lock' = t
    /\ th' = [th EXCEPT ![t].pc = IF endpoint_absent(th[t].endpoint)
                                  THEN "gl_create" ELSE "gl_return",
                        ![t].calls_per_second = a,
                        ![t].calls_per_minute = b]
    /\ UNCHANGED <<now, ticks, limiters, mgr_limiters, calls,
                   created, returned, admitted,
                   http_log, conn>>

\* self._limiters[endpoint] = RateLimiter(calls_per_second or 10,
\* calls_per_minute or 600)
get_limiter_create(t) ==
    /\ th[t].pc = "gl_create"
    /\ limiters' = Append(limiters,
                          RateLimiter(py_or(th[t].calls_per_second,
                                            DefaultCallsPerSecond),
                                      py_or(th[t].calls_per_minute,
                                            DefaultCallsPerMinute),
                                      DefaultMaxRetries))
    /\ admitted' = Append(admitted, <<>>)
    /\ mgr_limiters' = store_limiter(mgr_limiters, th[t].endpoint,
                                     Len(limiters) + 1)
    /\ created' = [created EXCEPT ![th[t].endpoint] = @ + 1]
    /\ th' = [th EXCEPT ![t].pc = "gl_return"]
    /\ UNCHANGED <<now, ticks, mgr_lock, calls, returned, http_log, conn>>

\* return self._limiters[endpoint]; wait_for_endpoint goes on to
\* limiter.wait(), _make_request to rate_limiter.wait()
get_limiter_return(t) ==
    /\ th[t].pc = "gl_return"
    /\ mgr_lock' = manager_lock_released(t)
    /\ LET k == th[t].endpoint
           r == mgr_limiters[k]
       IN /\ returned' = [returned EXCEPT ![k] = @ \cup {r}]
          /\ th' = [th EXCEPT ![t] =
                     IF th[t].op = "wait_for_endpoint"
                     THEN [IdleLocals EXCEPT !.pc = "w_lock",
                                             !.op = "wait_for_endpoint",
                                             !.self = r]
                     ELSE IF th[t].op = "make_request"
                     THEN [IdleLocals EXCEPT !.pc = client_after_limiter,
                                             !.op = "make_request",
                                             !.self = r, !.endpoint = k]
                     ELSE Returned]
    /\ UNCHANGED <<now, ticks, limiters, mgr_limiters, calls,
                   created, admitted, http_log, conn>>

\* ---------------------------------------- SEMrushAPIV3Client._make_request

\* _make_request(endpoint, params): endpoint_key, then _get_rate_limiter
CallMakeRequest(t, path) ==
    /\ th[t].pc = "idle"
    /\ calls < MaxCalls
    /\ calls' = calls + 1
    /\ th' = [th EXCEPT ![t] = [IdleLocals EXCEPT !.pc = "gl_lock",
                                 !.op = "make_request",
                                 !.endpoint = endpoint_key(path)]]
    /\ UNCHANGED <<now, ticks, limiters, mgr_limiters, mgr_lock,
                   created, returned, admitted, http_log, conn>>

\* response = self.client.request(...), answered with status r or not at
\* all; raise_for_status; return response.json(), or raise APIError
client_request(t, r) ==
    /\ th[t].pc = "mr_request"
    /\ http_log' = Append(http_log, th[t].endpoint)
    /\ th' = [th EXCEPT ![t] =
                IF r = NoResponse
                THEN [IdleLocals EXCEPT !.raised = "APIError"]
                ELSE IF raise_for_status(r)
                THEN [IdleLocals EXCEPT !.raised = "APIError",
                                        !.status_code = r]
                ELSE [IdleLocals EXCEPT !.result = "data",
                                        !.status_code = r]]
    /\ UNCHANGED <<now, ticks, limiters, mgr_limiters, mgr_lock, calls,
                   created, returned, admitted, conn>>

\* --------------------------------------------------------- ConnectionManager

\* ConnectionManager(...) is called: __new__ first, which waits for cls._lock
CallConnectionManager(t) ==
    /\ th[t].pc = "idle"
    /\ calls < MaxCalls
    /\ calls' = calls + 1
    /\ th' = [th EXCEPT ![t] = [IdleLocals EXCEPT !.pc = "cm_new_lock",
                                                   !.op = "ConnectionManager"]]
    /\ UNCHANGED <<now, ticks, limiters, mgr_limiters, mgr_lock,
                   created, returned, admitted, http_log, conn>>

\* __new__: with cls._lock
new_enter(t) ==
    /\ th[t].pc = "cm_new_lock"
    /\ conn.lock = NoThread
    /\ conn' = [conn EXCEPT !.lock = t]
    /\ th' = [th EXCEPT ![t].pc = "cm_new"]
    /\ UNCHANGED <<now, ticks, limiters, mgr_limiters, mgr_lock, calls,
                   created, returned, admitted, http_log>>

\* __new__: if cls._instance is None: create it; return cls._instance, which
\* releases the lock; __init__ is called on the instance returned
new_return(t) ==
    /\ th[t].pc = "cm_new"
    /\ conn' = [conn EXCEPT !.instances = IF @ = 0 THEN 1 ELSE @,
                            !.lock = NoThread]
    /\ th' = [th EXCEPT ![t].pc = "cm_init"]
    /\ UNCHANGED <<now, ticks, limiters, mgr_limiters, mgr_lock, calls,
                   created, returned, admitted, http_log>>

\* __init__: if not hasattr(self, 'initialized'), with no lock held
init_check(t) ==
    /\ th[t].pc = "cm_init"
    /\ th' = [th EXCEPT ![t] = IF conn.initialized
                               THEN [IdleLocals EXCEPT !.result = "instance"]
                               ELSE [@ EXCEPT !.pc = "cm_url"]]
    /\ UNCHANGED <<now, ticks, limiters, mgr_limiters, mgr_lock, calls,
                   created, returned, admitted, http_log, conn>>

\* __init__: self.db_url = db_url or os.getenv('DATABASE_URL'); no URL
\* raises ConfigurationError
init_db_url(t, has_url) ==
    /\ th[t].pc = "cm_url"
    /\ th' = [th EXCEPT ![t] = IF has_url
                               THEN [@ EXCEPT !.pc = "cm_parse"]
                               ELSE [IdleLocals EXCEPT
                                        !.raised = "ConfigurationError"]]
    /\ UNCHANGED <<now, ticks, limiters, mgr_limiters, mgr_lock, calls,
                   created, returned, admitted, http_log, conn>>

\* __init__: min_conn, max_conn, self.db_params = self._parse_db_url(); a
\* URL that cannot be parsed raises ConfigurationError
init_parse_db_url(t, parses) ==
    /\ th[t].pc = "cm_parse"
    /\ th' = [th EXCEPT ![t] = IF parses
                               THEN [@ EXCEPT !.pc = "cm_pool"]
                               ELSE [IdleLocals EXCEPT
                                        !.raised = "ConfigurationError"]]
    /\ UNCHANGED <<now, ticks, limiters, mgr_limiters, mgr_lock, calls,
                   created, returned, admitted, http_log, conn>>

\* __init__: self.pool = self._create_pool(); a psycopg2.Error raises
\* DatabaseConnectionError and no pool is there
init_create_pool(t, connects) ==
    /\ th[t].pc = "cm_pool"
    /\ IF connects
       THEN /\ conn' = [conn EXCEPT !.pools = @ + 1]
            /\ th' = [th EXCEPT ![t].pc = "cm_done"]
       ELSE /\ th' = [th EXCEPT ![t] = [IdleLocals EXCEPT
                                        !.raised = "DatabaseConnectionError"]]
            /\ UNCHANGED conn
    /\ UNCHANGED <<now, ticks, limiters, mgr_limiters, mgr_lock, calls,
                   created, returned, admitted, http_log>>

\* __init__: self.initialized = True, and the constructor returns
init_initialized(t) ==
    /\ th[t].pc = "cm_done"
    /\ conn' = [conn EXCEPT !.initialized = TRUE, !.inits = @ + 1]
    /\ th' = [th EXCEPT ![t] = [IdleLocals EXCEPT !.result = "instance"]]
    /\ UNCHANGED <<now, ticks, limiters, mgr_limiters, mgr_lock, calls,
                   created, returned, admitted, http_log>>

\* ------------------------------------------------------------------ Next

WaitStep(t) ==
    \/ wait_enter(t)
    \/ wait_clean_second(t)
    \/ wait_if_needed_second(t)
    \/ wait_clean_minute(t)
    \/ wait_if_needed_minute(t)
    \/ wait_wake(t)
    \/ wait_record(t)
    \/ wait_retry(t)

Next ==
    \/ \E d \in TickSteps : Tick(d)
    \/ \E t \in Threads : \E l \in 1..Len(limiters) : CallWait(t, l)
    \/ \E t \in Threads : WaitStep(t)

Spec == Init /\ [][Next]_vars

\* the same with a scheduler that lets every thread inside wait() run: a
\* sleep that is over returns, a free lock is acquired
FairSpec == Spec /\ \A t \in Threads : WF_vars(WaitStep(t))

\* the manager's callers; the clock advances as their sleeps elapse
NextManager ==
    \/ \E t \in Threads : \E l \in 1..Len(limiters) : CallWait(t, l)
    \/ \E t \in Threads : WaitStep(t)
    \/ \E t \in Threads, k \in Endpoints : CallGetLimiter(t, k)
    \/ \E t \in Threads, k \in Endpoints : CallWaitForEndpoint(t, k)
    \/ \E t \in Threads : \E a \in OptOverrides, b \in OptOverrides :
          get_limiter_enter(t, a, b)
    \/ \E t \in Threads : get_limiter_create(t)
    \/ \E t \in Threads : get_limiter_return(t)

SpecManager == InitManager /\ [][NextManager]_vars

\* the overrides the other callers of get_limiter pass
OtherSecondArgs == {NoneArg, {-1}, {1}}
OtherMinuteArgs == {NoneArg, {1}}

\* the client's requests, next to other callers of get_limiter on the
\* process-wide registry
NextClient ==
    \/ \E t \in Threads, path \in ClientPaths : CallMakeRequest(t, path)
    \/ \E t \in Threads, k \in Endpoints : CallGetLimiter(t, k)
    \/ \E t \in Threads : \E a \in OtherSecondArgs, b \in OtherMinuteArgs :
          th[t].op = "get_limiter" /\ get_limiter_enter(t, a, b)
    \/ \E t \in Threads :
          get_limiter_enter(t, {ClientPerSecond}, {ClientPerMinute})
    \/ \E t \in Threads : get_limiter_create(t)
    \/ \E t \in Threads : get_limiter_return(t)
    \/ \E t \in Threads : WaitStep(t)
    \/ \E t \in Threads, r \in Responses : client_request(t, r)

SpecClient == InitManager /\ [][NextClient]_vars

\* the steps of a thread inside ConnectionManager(...)
ConnStep(t) ==
    \/ new_enter(t)
    \/ new_return(t)
    \/ init_check(t)
    \/ \E has_url \in BOOLEAN : init_db_url(t, has_url)
    \/ \E parses \in BOOLEAN : init_parse_db_url(t, parses)
    \/ \E connects \in BOOLEAN : init_create_pool(t, connects)
    \/ init_initialized(t)

\* the threads of the process construct ConnectionManager concurrently
NextConn ==
    \/ \E t \in Threads : CallConnectionManager(t)
    \/ \E t \in Threads : ConnStep(t)

SpecConn == InitManager /\ [][NextConn]_vars

\* ---------------------------------------------------------------- claims

Lims == 1..Len(limiters)

\* the number of recorded admissions in the trailing window [t - interval, t]
WindowCount(log, t, interval) ==
    Cardinality({i \in DOMAIN log : t - interval <= log[i] /\ log[i] <= t})

\* the number of occurrences of x in q
Count(q, x) == Cardinality({i \in DOMAIN q : q[i] = x})

Range(q) == {q[i] : i \in DOMAIN q}

\* C1: on every limiter, at every instant t up to the current time, at most
\* calls_per_second recorded admissions lie in the trailing second ending at
\* t and at most calls_per_minute in the trailing minute ending at t,
\* whatever the interleaving of the callers and the advance of the clock.
C1_WindowBound ==
    \A l \in Lims : \A t \in 0..now :
        /\ WindowCount(admitted[l], t, SecondInterval) <= limiters[l].calls_per_second
        /\ WindowCount(admitted[l], t, MinuteInterval) <= limiters[l].calls_per_minute

\* more calls were admitted than one window allows, the current window is
\* full, and another caller is waiting to enter
C1_Witness ==
    \E l \in Lims :
        /\ Len(admitted[l]) > limiters[l].calls_per_second
        /\ WindowCount(admitted[l], now, SecondInterval) = limiters[l].calls_per_second
        /\ \E t \in Threads : th[t].pc = "w_lock" /\ th[t].self = l

\* C2: after every step, a successful wait() in particular, the stored
\* second_queue holds at most calls_per_second timestamps and the stored
\* minute_queue at most calls_per_minute; and the step that appends is taken
\* only with both counts returned by the eviction, which are the lengths of
\* the stored queues, strictly below their limits.
C2_StoredBound ==
    [][\A l \in Lims :
          /\ Len(limiters'[l].second_queue) <= limiters[l].calls_per_second
          /\ Len(limiters'[l].minute_queue) <= limiters[l].calls_per_minute
          /\ \A t \in Threads :
                (th[t].pc = "w_record" /\ th[t].self = l /\ th'[t].pc = "idle") =>
                   /\ th[t].second_count = Len(limiters[l].second_queue)
                   /\ th[t].minute_count = Len(limiters[l].minute_queue)
                   /\ th[t].second_count < limiters[l].calls_per_second
                   /\ th[t].minute_count < limiters[l].calls_per_minute]_vars

\* a wait() has succeeded and left both stored windows exactly full
C2_Witness ==
    \E l \in Lims :
        /\ admitted[l] # <<>>
        /\ limiters[l].lock = NoThread
        /\ Len(limiters[l].second_queue) = limiters[l].calls_per_second
        /\ Len(limiters[l].minute_queue) = limiters[l].calls_per_minute

\* C3: for every endpoint at most one RateLimiter is ever constructed, every
\* get_limiter call for it returned that one instance, and the entry of the
\* registry is that instance ever after (never removed, never replaced).
C3_OneLimiterPerKey ==
    \A k \in Endpoints :
        /\ created[k] <= 1
        /\ (created[k] = 1) <=> (mgr_limiters[k] # NoLimiter)
        /\ returned[k] \subseteq {mgr_limiters[k]} \ {NoLimiter}

\* two threads race on the same unseen endpoint: one has created the limiter
\* and still holds the lock, the other is waiting for the lock
C3_Witness ==
    \E k \in Endpoints : \E t1, t2 \in Threads :
        /\ t1 # t2
        /\ th[t1].pc = "gl_return" /\ th[t1].endpoint = k
        /\ th[t2].pc = "gl_lock" /\ th[t2].endpoint = k
        /\ created[k] = 1 /\ returned[k] = {}

\* C4: the step in which a wait() succeeds appends one timestamp, the same
\* value, at the back of second_queue and of minute_queue; both lengths are
\* one more than the counts the call's own eviction returned.
C4_DualRecord ==
    [][\A t \in Threads :
          (th[t].pc = "w_record" /\ th'[t].pc = "idle") =>
             LET l == th[t].self IN
             \E ts \in 0..now :
                /\ limiters'[l].second_queue = Append(limiters[l].second_queue, ts)
                /\ limiters'[l].minute_queue = Append(limiters[l].minute_queue, ts)
                /\ Len(limiters'[l].second_queue) = th[t].second_count + 1
                /\ Len(limiters'[l].minute_queue) = th[t].minute_count + 1]_vars

\* a wait() has succeeded twice on a limiter: both windows end with the
\* timestamp of the last admission
C4_Witness ==
    \E l \in Lims :
        /\ Len(admitted[l]) >= 2
        /\ limiters[l].second_queue # <<>>
        /\ limiters[l].minute_queue # <<>>
        /\ limiters[l].second_queue[Len(limiters[l].second_queue)]
               = admitted[l][Len(admitted[l])]
        /\ limiters[l].minute_queue[Len(limiters[l].minute_queue)]
               = admitted[l][Len(admitted[l])]

\* C5: every timestamp in second_queue is also in minute_queue.
C5_ShortWithinLong ==
    \A l \in Lims :
        Range(limiters[l].second_queue) \subseteq Range(limiters[l].minute_queue)

\* q2 is q1 with nothing added and only timestamps older than interval removed
OnlyExpiredRemoved(q1, q2, interval) ==
    \A x \in Range(q1) \cup Range(q2) :
        \/ Count(q2, x) = Count(q1, x)
        \/ Count(q2, x) = 0 /\ now - x > interval

Added(q1, q2) == \E x \in Range(q2) : Count(q2, x) > Count(q1, x)

\* C6: a timestamp enters second_queue in exactly the steps in which one
\* enters minute_queue, and only in the step in which a wait() succeeds; every
\* other step (of a failing call in particular) leaves in each window the
\* timestamps it held, except expired ones.
C6_NoPartialAdmit ==
    [][\A l \in Lims :
          LET s1 == limiters[l].second_queue
              s2 == limiters'[l].second_queue
              m1 == limiters[l].minute_queue
              m2 == limiters'[l].minute_queue
              succeeds == \E t \in Threads : /\ th[t].pc = "w_record"
                                             /\ th[t].self = l
                                             /\ th'[t].pc = "idle"
          IN /\ Added(s1, s2) <=> Added(m1, m2)
             /\ Added(s1, s2) => succeeds
             /\ ~succeeds => /\ OnlyExpiredRemoved(s1, s2, SecondInterval)
                             /\ OnlyExpiredRemoved(m1, m2, MinuteInterval)]_vars

\* a wait() has failed after its retries on a limiter that holds an admission
C6_Witness ==
    \E t \in Threads :
        /\ th[t].raised = "RuntimeError"
        /\ admitted[th[t].self] # <<>>
        /\ limiters[th[t].self].minute_queue # <<>>

\* C7: a wait() that is not admitted (every attempt found a window at its
\* limit) has made max_retries attempts and raised the rate-limit error.
C7_ExhaustedAfterMaxRetries ==
    \A t \in Threads :
        th[t].raised # "none" =>
            /\ th[t].raised = "RuntimeError"
            /\ th[t].retries = limiters[th[t].self].max_retries

\* C8: wait() either returns or raises the rate-limit error, nothing else.
C8_OnlyRateLimitError ==
    \A t \in Threads : th[t].raised \in {"none", "RuntimeError"}

\* C9: no RateLimiter with a non-positive limit exists.
C9_LimitsPositive ==
    \A l \in Lims :
        limiters[l].calls_per_second > 0 /\ limiters[l].calls_per_minute > 0

\* C10: an attempt that has slept in _wait_if_needed and, at its admission
\* decision, finds both windows below their limits when counted against the
\* current time, is admitted in that attempt (no retry, no fallback sleep).
C10_RecountAfterWait ==
    [][\A t \in Threads :
          LET l == th[t].self IN
          (/\ th[t].pc = "w_record"
           /\ th'[t].pc # "w_record"
           /\ th[t].waited
           /\ WindowCount(limiters[l].second_queue, now, SecondInterval)
                 < limiters[l].calls_per_second
           /\ WindowCount(limiters[l].minute_queue, now, MinuteInterval)
                 < limiters[l].calls_per_minute)
          => /\ th'[t].pc = "idle"
             /\ Len(admitted'[l]) = Len(admitted[l]) + 1]_vars

\* the critical section of wait(): from the loop test to the return or raise
InWait == {"w_clean_s", "w_wait_s", "w_sleep_s", "w_clean_m", "w_wait_m",
           "w_sleep_m", "w_record", "w_sleep_r"}

\* thread t decides on admission in this step (line 104), on limiter l
Decides(t, l) ==
    th[t].pc = "w_record" /\ th[t].self = l /\ th'[t].pc # "w_record"

\* C11: on a limiter whose long window has headroom, no caller sleeps before
\* calls_per_second calls were admitted; the caller that finds the short
\* window full sleeps until SecondInterval after the oldest timestamp of the
\* short window; and once that timestamp has left the window the caller is
\* admitted in that attempt, on top of exactly calls_per_second admissions.
C11_BurstThenSleep ==
    [][\A l \in Lims : \A t \in Threads :
          LET headroom == Len(admitted[l]) < limiters[l].calls_per_minute
              burst == Len(admitted[l]) = limiters[l].calls_per_second
          IN /\ (headroom /\ th'[t].self = l
                   /\ th'[t].pc \in {"w_sleep_s", "w_sleep_m", "w_sleep_r"})
                  => Len(admitted[l]) >= limiters[l].calls_per_second
             /\ (th[t].self = l /\ th[t].pc = "w_wait_s"
                   /\ th'[t].pc = "w_sleep_s")
                  => th'[t].wake = Head(limiters[l].second_queue) + SecondInterval
             /\ (headroom /\ burst /\ Decides(t, l) /\ th[t].waited
                   /\ th[t].retries = 0
                   /\ now - Head(admitted[l]) > SecondInterval)
                  => /\ th'[t].pc = "idle"
                     /\ Len(admitted'[l]) = Len(admitted[l]) + 1]_vars

\* every timestamp of q is older than interval at the current time
AllExpired(q, interval) == \A i \in DOMAIN q : now - q[i] > interval

\* C12: a first attempt that finds only timestamps older than SecondInterval
\* in the short window, however many, evicts them all and counts zero; with
\* the long window below its limit at the current time it then goes on
\* without sleeping, and is admitted in that attempt.
C12_ExpiredNotCounted ==
    [][\A l \in Lims : \A t \in Threads :
          /\ (th[t].self = l /\ th[t].pc = "w_clean_s"
                /\ th'[t].pc # "w_clean_s"
                /\ AllExpired(limiters[l].second_queue, SecondInterval))
               => /\ limiters'[l].second_queue = <<>>
                  /\ th'[t].second_count = 0
                  /\ th'[t].pc = "w_clean_m"
          /\ (th[t].self = l /\ th[t].pc = "w_clean_m" /\ ~th[t].waited
                /\ th'[t].pc # "w_clean_m"
                /\ th[t].second_count = 0
                /\ WindowCount(limiters[l].minute_queue, now, MinuteInterval)
                      < limiters[l].calls_per_minute)
               => /\ th'[t].pc = "w_record"
                  /\ th'[t].minute_count < limiters[l].calls_per_minute
                  /\ ~th'[t].waited
          /\ (Decides(t, l) /\ ~th[t].waited /\ th[t].second_count = 0
                /\ th[t].minute_count < limiters[l].calls_per_minute)
               => /\ th'[t].pc = "idle"
                  /\ th'[t].raised = "none"
                  /\ admitted'[l] = Append(admitted[l], now)]_vars

\* a first attempt that has not slept is about to be admitted with an empty
\* short window, on a limiter whose short window had been filled to its limit
\* by admissions that are now older than SecondInterval
C12_Witness ==
    \E t \in Threads :
        LET l == th[t].self IN
        /\ th[t].pc = "w_record" /\ th[t].retries = 0 /\ ~th[t].waited
        /\ th[t].second_count = 0
        /\ limiters[l].second_queue = <<>>
        /\ th[t].minute_count < limiters[l].calls_per_minute
        /\ Len(admitted[l]) >= limiters[l].calls_per_second
        /\ AllExpired(admitted[l], SecondInterval)

\* C13: the caller that finds the long window at its limit sleeps for
\* MinuteInterval minus the age of the oldest timestamp of the long window,
\* and does not sleep when that is not positive.
C13_LongSleepFromLongWindow ==
    [][\A l \in Lims : \A t \in Threads :
          (th[t].self = l /\ th[t].pc = "w_wait_m" /\ th'[t].pc # "w_wait_m") =>
             LET d == Max(0, MinuteInterval - (now - Head(limiters[l].minute_queue)))
             IN IF d > 0
                THEN th'[t].pc = "w_sleep_m" /\ th'[t].wake = now + d
                ELSE th'[t].pc = "w_record"]_vars

\* C14: on each limiter at most one caller is inside wait()'s critical
\* section and it holds the lock; while it does (asleep or not) no other
\* caller of that limiter enters the section, and the two windows change
\* only in the steps of the holder.
C14_CriticalSection ==
    [][\A l \in Lims : \A t \in Threads :
          /\ (th[t].self = l /\ th[t].pc \in InWait) => limiters[l].lock = t
          /\ limiters[l].lock = t =>
                /\ th[t].self = l /\ th[t].pc \in InWait
                /\ \A u \in Threads \ {t} :
                      th[u].self = l => th'[u].pc \notin InWait
                /\ th'[t] = th[t] =>
                      /\ limiters'[l].second_queue = limiters[l].second_queue
                      /\ limiters'[l].minute_queue = limiters[l].minute_queue]_vars

\* one caller sleeps inside the critical section of a limiter that holds an
\* admission while another caller of the same limiter waits for the lock
C14_Witness ==
    \E t, u \in Threads :
        /\ t # u
        /\ th[t].self = th[u].self
        /\ th[t].pc \in {"w_sleep_s", "w_sleep_m", "w_sleep_r"}
        /\ th[u].pc = "w_lock"
        /\ limiters[th[t].self].second_queue # <<>>

\* thread t takes a step of get_limiter on endpoint k
GetLimiterStep(t, k) ==
    /\ th[t].endpoint = k
    /\ th[t].pc \in {"gl_lock", "gl_create", "gl_return"}
    /\ th'[t] # th[t]

\* the value of an Optional[int] that is not None
ValueOf(arg) == CHOOSE v \in arg : TRUE

\* C15: every step of a get_limiter call on an endpoint that has an entry
\* leaves the registry and every limiter (limits and windows) as they were,
\* constructs nothing, whatever overrides the call passed, and the call
\* returns the entry.
C15_HitChangesNothing ==
    [][\A t \in Threads : \A k \in Endpoints :
          (GetLimiterStep(t, k) /\ mgr_limiters[k] # NoLimiter) =>
             /\ limiters' = limiters
             /\ mgr_limiters' = mgr_limiters
             /\ created' = created
             /\ th'[t].pc # "gl_create"
             /\ th[t].pc = "gl_return" =>
                   returned'[k] = returned[k] \cup {mgr_limiters[k]}]_vars

\* a get_limiter call that found the entry of an endpoint already returned
\* before is about to return it; it passed a calls_per_second override that
\* differs from the limiter's limit, and the limiter's windows are not empty
C15_Witness ==
    \E t \in Threads : \E k \in Endpoints :
        /\ th[t].pc = "gl_return" /\ th[t].endpoint = k
        /\ returned[k] # {}
        /\ th[t].calls_per_second # NoneArg
        /\ ValueOf(th[t].calls_per_second) # limiters[mgr_limiters[k]].calls_per_second
        /\ limiters[mgr_limiters[k]].second_queue # <<>>
        /\ limiters[mgr_limiters[k]].minute_queue # <<>>

\* C16: the step of get_limiter that constructs the limiter of an unseen
\* endpoint gives it the calls_per_second override when one was passed and
\* 10 otherwise, the calls_per_minute override when one was passed and 600
\* otherwise, and inserts it under the endpoint.
C16_OverridesOrDefaults ==
    [][\A t \in Threads : \A k \in Endpoints :
          (GetLimiterStep(t, k) /\ th[t].pc = "gl_create") =>
             LET new == limiters'[mgr_limiters'[k]] IN
             /\ mgr_limiters[k] = NoLimiter
             /\ mgr_limiters'[k] = Len(limiters')
             /\ Len(limiters') = Len(limiters) + 1
             /\ new.calls_per_second =
                   IF th[t].calls_per_second = NoneArg
                   THEN DefaultCallsPerSecond
                   ELSE ValueOf(th[t].calls_per_second)
             /\ new.calls_per_minute =
                   IF th[t].calls_per_minute = NoneArg
                   THEN DefaultCallsPerMinute
                   ELSE ValueOf(th[t].calls_per_minute)]_vars

\* C17: every get_limiter call for an endpoint returned that endpoint's one
\* instance, two endpoints never share an instance, and a step of a wait()
\* on one limiter, or the creation of another, leaves every other limiter's
\* windows and limits unchanged.
C17_IndependentLimiters ==
    [][/\ \A k \in Endpoints :
             /\ returned'[k] \subseteq {mgr_limiters'[k]} \ {NoLimiter}
             /\ \A j \in Endpoints \ {k} :
                   mgr_limiters'[k] # NoLimiter => mgr_limiters'[j] # mgr_limiters'[k]
       /\ \A l \in Lims :
             /\ limiters'[l].calls_per_second = limiters[l].calls_per_second
             /\ limiters'[l].calls_per_minute = limiters[l].calls_per_minute
             /\ \A t \in Threads :
                   (th'[t] # th[t] /\ th[t].self # l) => limiters'[l] = limiters[l]]_vars

\* both endpoints have their limiter; one holds an admission, on the other a
\* wait() has failed and its windows stay empty
C17_Witness ==
    \E k, j \in Endpoints : \E t \in Threads :
        /\ k # j
        /\ mgr_limiters[k] # NoLimiter /\ mgr_limiters[j] # NoLimiter
        /\ returned[k] # {} /\ returned[j] # {}
        /\ limiters[mgr_limiters[k]].second_queue # <<>>
        /\ th[t].raised # "none" /\ th[t].self = mgr_limiters[j]
        /\ limiters[mgr_limiters[j]].second_queue = <<>>
        /\ limiters[mgr_limiters[j]].minute_queue = <<>>

\* C18: a wait_for_endpoint call goes through get_limiter without overrides
\* (an unseen endpoint gets a limiter with the default limits, a seen one
\* keeps its limiter) and then through one wait() on the limiter returned:
\* it ends when that wait() ends, returning after exactly one admission or
\* raising what the wait() raised with nothing recorded.
C18_WaitForEndpointComposition ==
    [][\A t \in Threads :
          (th[t].op = "wait_for_endpoint" /\ th'[t] # th[t]) =>
             LET k == th[t].endpoint
                 l == th[t].self
             IN /\ th[t].pc = "gl_lock" =>
                      /\ th'[t].calls_per_second = NoneArg
                      /\ th'[t].calls_per_minute = NoneArg
                      /\ th'[t].pc = IF mgr_limiters[k] = NoLimiter
                                     THEN "gl_create" ELSE "gl_return"
                /\ th[t].pc = "gl_create" =>
                      /\ limiters' = Append(limiters,
                            RateLimiter(DefaultCallsPerSecond,
                                        DefaultCallsPerMinute,
                                        DefaultMaxRetries))
                      /\ mgr_limiters'[k] = Len(limiters')
                /\ th[t].pc # "gl_create" => Len(limiters') = Len(limiters)
                /\ th[t].pc = "gl_return" =>
                      /\ th'[t].pc = "w_lock"
                      /\ th'[t].op = "wait_for_endpoint"
                      /\ th'[t].self = mgr_limiters[k]
                      /\ limiters' = limiters
                /\ th'[t].pc = "idle" =>
                      /\ th[t].pc \in InWait \cup {"w_lock"}
                      /\ th'[t].op = "none"
                      /\ IF th'[t].raised = "none"
                         THEN admitted'[l] = Append(admitted[l], now)
                         ELSE admitted' = admitted
                /\ th'[t].pc # "idle" =>
                      \A m \in Lims : admitted'[m] = admitted[m]]_vars

\* a wait_for_endpoint call that reused a cached limiter with non-default
\* limits sleeps in its wait()
C18_Witness ==
    \E t \in Threads :
        /\ th[t].op = "wait_for_endpoint"
        /\ th[t].pc \in {"w_sleep_s", "w_sleep_m"}
        /\ limiters[th[t].self].calls_per_second # DefaultCallsPerSecond
        /\ admitted[th[t].self] # <<>>

\* C19: every HTTP request is issued by a _make_request whose wait() on the
\* limiter registered under the request's endpoint key has just returned;
\* on every endpoint the admissions recorded are the requests issued plus
\* the requests admitted and about to be issued (one admission per request);
\* and a _make_request whose wait() raises ends there without a request.
C19_AdmitBeforeRequest ==
    [][/\ \A k \in Endpoints :
             Count(http_log', k) + Cardinality({t \in Threads :
                   th'[t].pc = "mr_request" /\ th'[t].endpoint = k})
                = IF mgr_limiters'[k] = NoLimiter THEN 0
                  ELSE Len(admitted'[mgr_limiters'[k]])
       /\ \A t \in Threads :
             /\ (th'[t].pc = "mr_request" /\ th[t].pc # "mr_request") =>
                   /\ th[t].pc = "w_record"
                   /\ th[t].self = mgr_limiters[th[t].endpoint]
                   /\ th'[t].endpoint = th[t].endpoint
                   /\ admitted'[th[t].self] = Append(admitted[th[t].self], now)
             /\ (th[t].pc = "mr_request" /\ th'[t] # th[t]) =>
                   /\ http_log' = Append(http_log, th[t].endpoint)
                   /\ th'[t].pc = "idle"
             /\ (th[t].pc # "mr_request" /\ th'[t] # th[t]) => http_log' = http_log
             /\ (th[t].op = "make_request" /\ th[t].pc \in InWait
                   /\ th'[t].raised # "none")
                  => th'[t].pc = "idle" /\ http_log' = http_log]_vars

\* one request was issued after its admission, and another _make_request
\* has ended in the error its wait() raised, with no request issued for it
C19_Witness ==
    \E t \in Threads :
        /\ th[t].raised \in {"RuntimeError", "IndexError"}
        /\ Len(http_log) = 1
        /\ calls >= 2
        /\ \E l \in Lims : Len(admitted[l]) = 1

C21_FailuresAreAPIError ==
    \A t \in Threads :
        /\ th[t].raised \in {"none", "APIError"}
        /\ th[t].result = "data" => th[t].raised = "none"

\* C22: every wait() that was called ends, after at most max_retries
\* attempts, either admitted or with the rate-limit error; a caller waiting
\* for the lock of the limiter gets it.
C22_WaitTerminates ==
    \A t \in Threads :
        (th[t].pc = "w_lock") ~>
            (/\ th[t].pc = "idle"
             /\ th[t].raised \in {"none", "RuntimeError"}
             /\ th[t].retries <= limiters[1].max_retries)

\* the timestamps of q that are at most interval old at the current time
Fresh(q, interval) == SelectSeq(q, LAMBDA ts : now - ts <= interval)

\* C23: an attempt that is not admitted adds exactly one to retries and
\* sleeps RetrySleep once; the sleep over, the loop is left with the
\* rate-limit error when retries has reached max_retries, and otherwise the
\* next attempt evicts second_queue and then minute_queue against the time
\* of each eviction, counting only what is still inside the window; retries
\* never exceeds max_retries.
C23_RetryRestartsFromEviction ==
    [][\A t \in Threads :
          LET l == th[t].self IN
          /\ th'[t].retries <= limiters'[1].max_retries
          /\ (th[t].pc = "w_record" /\ th'[t].pc = "w_sleep_r") =>
                /\ th'[t].retries = th[t].retries + 1
                /\ th'[t].wake = now + RetrySleep
                /\ limiters' = limiters
          /\ (th[t].pc = "w_sleep_r" /\ th'[t] # th[t]) =>
                /\ now' >= th[t].wake
                /\ th'[t].retries = th[t].retries
                /\ IF th[t].retries < limiters[l].max_retries
                   THEN th'[t].pc = "w_clean_s" /\ ~th'[t].waited
                   ELSE th'[t].pc = "idle" /\ th'[t].raised = "RuntimeError"
          /\ (th[t].pc = "w_clean_s" /\ th'[t] # th[t]) =>
                /\ limiters'[l].second_queue
                      = Fresh(limiters[l].second_queue, SecondInterval)
                /\ th'[t].second_count = Len(limiters'[l].second_queue)
                /\ th'[t].pc \in {"w_wait_s", "w_clean_m"}
          /\ (th[t].pc \in {"w_wait_s", "w_sleep_s"} /\ th'[t] # th[t]) =>
                th'[t].pc \in {"w_sleep_s", "w_clean_m"}
          /\ (th[t].pc = "w_clean_m" /\ th'[t] # th[t]) =>
                /\ limiters'[l].minute_queue
                      = Fresh(limiters[l].minute_queue, MinuteInterval)
                /\ th'[t].minute_count = Len(limiters'[l].minute_queue)]_vars

\* a second attempt has evicted a timestamp that expired during the sleeps
\* of the first attempt, and counts an empty short window
C23_Witness ==
    \E t \in Threads :
        LET l == th[t].self IN
        /\ th[t].pc = "w_clean_m" /\ th[t].retries = 1
        /\ th[t].second_count = 0
        /\ limiters[l].second_queue = <<>>
        /\ admitted[l] # <<>>

\* the program counters at which a thread is suspended in a sleep
Asleep == {"w_sleep_s", "w_sleep_m", "w_sleep_r"}

\* every override a caller of get_limiter passes in some specification
AnyOverrides == OptOverrides \cup {{ClientPerSecond}, {ClientPerMinute}}

\* C24: a thread sleeps only inside wait(), holding the lock of the limiter
\* it waits on and no other lock; the registry's lock is held only by a
\* thread between the entry and the return of get_limiter, which never
\* sleeps.  So a caller of get_limiter is held up only by another caller
\* inside get_limiter, and a caller of wait() only by a caller inside wait()
\* on the same limiter: with those locks free it can take its step, whoever
\* sleeps on another limiter.
C24_SleepOnlyInWait ==
    /\ mgr_lock # NoThread =>
          /\ th[mgr_lock].pc \in {"gl_create", "gl_return"}
          /\ th[mgr_lock].pc \notin Asleep
    /\ \A l \in Lims :
          limiters[l].lock # NoThread =>
             /\ th[limiters[l].lock].self = l
             /\ th[limiters[l].lock].pc \in InWait
    /\ \A t \in Threads :
          /\ th[t].pc \in Asleep =>
                /\ limiters[th[t].self].lock = t
                /\ mgr_lock # t
                /\ \A l \in Lims \ {th[t].self} : limiters[l].lock # t
          /\ (th[t].pc = "gl_lock" /\ mgr_lock = NoThread) =>
                ENABLED (\E a \in AnyOverrides, b \in AnyOverrides :
                            get_limiter_enter(t, a, b))
          /\ (th[t].pc = "w_lock" /\ limiters[th[t].self].lock = NoThread) =>
                ENABLED wait_enter(t)

\* one caller sleeps in wait() on the limiter of one endpoint while another
\* caller is inside get_limiter, holding the registry's lock, or inside
\* wait() on the limiter of another endpoint
C24_Witness ==
    \E t, u \in Threads :
        /\ th[t].pc \in Asleep
        /\ \/ mgr_lock = u
           \/ th[u].pc \in InWait /\ th[u].self # th[t].self

\* q is in non-decreasing order
Sorted(q) == \A i, j \in DOMAIN q : i < j => q[i] <= q[j]

\* C25: in every reachable state second_queue and minute_queue are in
\* non-decreasing order, and the first element of a non-empty queue is its
\* oldest timestamp.
C25_WindowsOrdered ==
    \A l \in Lims :
        /\ Sorted(limiters[l].second_queue)
        /\ Sorted(limiters[l].minute_queue)
        /\ \A x \in Range(limiters[l].second_queue) :
              Head(limiters[l].second_queue) <= x
        /\ \A x \in Range(limiters[l].minute_queue) :
              Head(limiters[l].minute_queue) <= x

\* a window holds admissions of different times, the older one first, after
\* an eviction has removed a still older one
C25_Witness ==
    \E l \in Lims :
        /\ Len(limiters[l].minute_queue) >= 2
        /\ limiters[l].minute_queue[1] < limiters[l].minute_queue[2]
        /\ Len(admitted[l]) > Len(limiters[l].minute_queue)

\* q2 is what the eviction at the current time leaves of q1: every timestamp
\* older than interval gone, every other one kept as often as it occurred,
\* the one whose age is exactly interval included
EvictedExactly(q1, q2, interval) ==
    /\ Range(q2) \subseteq Range(q1)
    /\ \A x \in Range(q1) :
          Count(q2, x) = IF now - x > interval THEN 0 ELSE Count(q1, x)

\* C26: the eviction of a window removes exactly the timestamps whose age
\* at the time of the check is greater than the window's interval; a
\* timestamp whose age equals the interval stays and is counted, and the
\* count returned is the number of timestamps left.
C26_EvictsStrictlyOlder ==
    [][\A t \in Threads :
          LET l == th[t].self IN
          /\ (th[t].pc = "w_clean_s" /\ th'[t] # th[t]) =>
                /\ EvictedExactly(limiters[l].second_queue,
                                  limiters'[l].second_queue, SecondInterval)
                /\ th'[t].second_count
                      = WindowCount(limiters[l].second_queue, now, SecondInterval)
                /\ limiters'[l].minute_queue = limiters[l].minute_queue
          /\ (th[t].pc = "w_clean_m" /\ th'[t] # th[t]) =>
                /\ EvictedExactly(limiters[l].minute_queue,
                                  limiters'[l].minute_queue, MinuteInterval)
                /\ th'[t].minute_count
                      = WindowCount(limiters[l].minute_queue, now, MinuteInterval)
                /\ limiters'[l].second_queue = limiters[l].second_queue]_vars

\* after an eviction of the short window a timestamp exactly SecondInterval
\* old is still there and counted, an older one is gone
C26_Witness ==
    \E t \in Threads :
        LET l == th[t].self IN
        /\ th[t].pc \in {"w_wait_s", "w_clean_m"}
        /\ th[t].second_count >= 1
        /\ limiters[l].second_queue # <<>>
        /\ now - Head(limiters[l].second_queue) = SecondInterval
        /\ Len(limiters[l].minute_queue) > Len(limiters[l].second_queue)

\* thread t leaves wait() in this step, by return or by exception
LeavesWait(t) == th[t].pc \in InWait /\ th'[t].pc \notin InWait

\* C27: when a call of wait() ends, admitted or by any exception, the lock
\* of its limiter is free; the lock is never held by a thread that is not
\* inside wait() on that limiter; a caller waiting for the lock gets it; and
\* an attempt that finds both windows below their limits is admitted in
\* that attempt without sleeping.
C27_LockFreeAfterWait ==
    /\ [][\A t \in Threads :
            LET l == th[t].self IN
            /\ LeavesWait(t) => limiters'[l].lock = NoThread
            /\ (th[t].pc = "w_clean_s" /\ th'[t] # th[t]
                  /\ WindowCount(limiters[l].second_queue, now, SecondInterval)
                        < limiters[l].calls_per_second)
                  => th'[t].pc = "w_clean_m"
            /\ (th[t].pc = "w_clean_m" /\ th'[t] # th[t]
                  /\ WindowCount(limiters[l].minute_queue, now, MinuteInterval)
                        < limiters[l].calls_per_minute)
                  => th'[t].pc = "w_record"
            /\ (Decides(t, l)
                  /\ th[t].second_count < limiters[l].calls_per_second
                  /\ th[t].minute_count < limiters[l].calls_per_minute)
                  => /\ admitted'[l] = Append(admitted[l], now)
                     /\ th'[t].raised = "none"
                     /\ LeavesWait(t)]_vars
    /\ [](\A l \in Lims :
            limiters[l].lock # NoThread =>
                /\ th[limiters[l].lock].pc \in InWait
                /\ th[limiters[l].lock].self = l)
    /\ \A t \in Threads : (th[t].pc = "w_lock") ~> (th[t].pc # "w_lock")

\* a call has ended by an exception on a limiter that admits one call per
\* minute, and after it a call on the same limiter was admitted: the lock
\* is free again
C27_Witness ==
    \E t \in Threads, l \in Lims :
        /\ th[t].pc = "idle"
        /\ th[t].raised = "IndexError"
        /\ th[t].self = l
        /\ limiters[l].calls_per_minute = 1
        /\ limiters[l].lock = NoThread
        /\ Len(admitted[l]) = 2
        /\ admitted[l][2] > admitted[l][1] + MinuteInterval

\* C28: every request of the client is gated by a limiter of ClientPerSecond
\* calls per second and ClientPerMinute calls per minute: the limiter a
\* _make_request waits on, and the one that has admitted a request about to
\* be issued, has these two limits, whatever the registry's callers did
\* before.
C28_ClientQuotas ==
    \A t \in Threads :
        (th[t].op = "make_request" /\ th[t].pc \in InWait \cup {"w_lock", "mr_request"})
            => /\ limiters[th[t].self].calls_per_second = ClientPerSecond
               /\ limiters[th[t].self].calls_per_minute = ClientPerMinute

\* C29: ConnectionManager is a singleton under concurrent construction: at
\* most one instance is created, the initialisation is completed at most
\* once and at most one connection pool is created; and a constructor that
\* has returned has left the one instance initialised, with its pool.
C29_Singleton ==
    /\ conn.instances <= 1
    /\ conn.inits <= 1
    /\ conn.pools <= 1
    /\ \A t \in Threads :
          th[t].result = "instance" =>
              conn.instances = 1 /\ conn.initialized /\ conn.pools >= 1

====
